---- MODULE Spec2Model ----
(***************************************************************************)
(* A model of loadit/plugins_loader.py: the derivation of package paths    *)
(* from file paths, the discovery of package paths under a package's       *)
(* directory, and the sweep that imports every discovered module and       *)
(* collects the members that satisfy the plugins predicate.                *)
(*                                                                         *)
(* Text is a sequence of one-character strings, so that suffixes,          *)
(* prefixes, replacement and splitting are computed as Python computes     *)
(* them.  A filesystem path is the sequence of its components, which is    *)
(* what pathlib.Path keeps (a "." component is dropped, ".." is kept).     *)
(***************************************************************************)
EXTENDS Integers, Sequences, FiniteSets, TLC

VARIABLES
    \* --- derivation of one package path (SpecPath) ---
    gen_pc,            \* "input" before _generate_package_path ran, "done" after
    file_a, file_b,    \* two file paths relative to the current working directory
    path_a, path_b,    \* the package paths derived from them
    \* --- _generate_packages_paths_from_module (SpecWalk) ---
    walk_pc,           \* "idle", "walking", "returned"
    package_relative_path,           \* the package's directory, relative to the cwd
    included_files_pattern,          \* PluginsLoader.included_files_pattern
    included_subdirectories_pattern, \* PluginsLoader.included_subdirectories_pattern
    walk_iterator,     \* the os.walk the for statement iterates: the
                       \* directories it has still to list, next one first
    directory_tree,    \* the name directory_tree after its rebinding: the tops
                       \* of the subdirectory walks chained onto it
    walked,            \* number of directories os.walk has found so far
    packages_paths,    \* the set of package paths built so far
    sources,           \* history: the files a package path was generated from
    \* --- _load_plugins and _handle_missing_modules (Spec) ---
    load_pc,           \* "idle", "sweep", "returned", "raised_missing", "raised_fatal"
    raise_exception_on_missing_modules,
    plugins_predicate, \* the predicate handed to _load
    todo,              \* the package paths the for loop has not reached yet
    plugins,           \* the list of plugins
    missing_modules,   \* the list of missing module names
    warnings,          \* what logger.warning received, one entry per call
    raised,            \* the names in the raised ModuleNotFoundError's message
    result,            \* the list returned to the caller, in a 1-tuple; <<>> if none
    first_seen,        \* history: matching members in order of first encounter
    encounters,        \* history: how many matching members getmembers returned
    exported,          \* history: the members of the modules imported so far
    failures,          \* history: the names of the ModuleNotFoundErrors caught
    fatal_seen         \* history: an import failed otherwise than with such a name

vars == <<gen_pc, file_a, file_b, path_a, path_b,
          walk_pc, package_relative_path, included_files_pattern,
          included_subdirectories_pattern, walk_iterator, directory_tree,
          walked, packages_paths, sources,
          load_pc, raise_exception_on_missing_modules, plugins_predicate,
          todo, plugins, missing_modules, warnings, raised, result,
          first_seen, encounters, exported, failures, fatal_seen>>

genVars == <<gen_pc, file_a, file_b, path_a, path_b>>

walkVars == <<walk_pc, package_relative_path, included_files_pattern,
              included_subdirectories_pattern, walk_iterator, directory_tree,
              walked, packages_paths, sources>>

loadVars == <<load_pc, raise_exception_on_missing_modules, plugins_predicate,
              todo, plugins, missing_modules, warnings, raised, result,
              first_seen, encounters, exported, failures, fatal_seen>>

(***************************************************************************)
(* Bounds of the model.                                                    *)
(***************************************************************************)
\* Directories above a file, in the paths given to _generate_package_path.
MaxDirDepth == 2
\* Directories in the tree under a package's directory, that directory included.
MaxWalked == 3
\* Depth of the directory tree below the package's directory.
MaxTreeDepth == 2
\* Package paths handed to _load_plugins.
NumPackagePaths == 2
\* Names bound in one imported module.
MaxMembers == 2

(***************************************************************************)
(* Text.                                                                   *)
(***************************************************************************)
\* str.startswith(prefix)
StartsWith(s, prefix) ==
    /\ Len(prefix) <= Len(s)
    /\ SubSeq(s, 1, Len(prefix)) = prefix

\* str.endswith(suffix)
EndsWith(s, suffix) ==
    /\ Len(suffix) <= Len(s)
    /\ SubSeq(s, Len(s) - Len(suffix) + 1, Len(s)) = suffix

\* str.lstrip("."): the text without its leading dots
RECURSIVE LStripDots(_)
LStripDots(s) ==
    IF s # <<>> /\ Head(s) = "." THEN LStripDots(Tail(s)) ELSE s

\* str.split(sep)[-1]: what follows the last occurrence of sep, the
\* occurrences being found from the left without overlap
RECURSIVE SplitLast(_, _)
SplitLast(s, sep) ==
    LET hits == {i \in 1..(Len(s) - Len(sep) + 1) :
                    SubSeq(s, i, i + Len(sep) - 1) = sep}
    IN  IF hits = {} THEN s
        ELSE LET i == CHOOSE h \in hits : \A g \in hits : h <= g
             IN  SplitLast(SubSeq(s, i + Len(sep), Len(s)), sep)

\* "sep".join(parts)
RECURSIVE JoinWith(_, _)
JoinWith(parts, sep) ==
    IF parts = <<>> THEN <<>>
    ELSE IF Len(parts) = 1 THEN parts[1]
    ELSE parts[1] \o sep \o JoinWith(Tail(parts), sep)

\* the last index of "." in name, 0 if there is none (str.rfind, 1-based)
RFindDot(name) ==
    LET dots == {i \in 1..Len(name) : name[i] = "."}
    IN  IF dots = {} THEN 0 ELSE CHOOSE i \in dots : \A j \in dots : j <= i

_PRIVATE_PREFIX == <<"_", "_">>

_INSTALLED_PACKAGES_DIRECTORY ==
    <<"s", "i", "t", "e", "-", "p", "a", "c", "k", "a", "g", "e", "s">>

PySuffix == <<".", "p", "y">>

(***************************************************************************)
(* pathlib.Path, a path being the sequence of its components.              *)
(***************************************************************************)
\* Path.name: the last component, "" for the path "."
PathName(p) == IF p = <<>> THEN <<>> ELSE p[Len(p)]

\* Path.suffix of a name: from its last dot on, unless that dot is the
\* name's first or last character
NameSuffix(name) ==
    LET i == RFindDot(name)
    IN  IF 1 < i /\ i < Len(name) THEN SubSeq(name, i, Len(name)) ELSE <<>>

\* Path.with_suffix(""): the path with the suffix of its name removed
WithoutSuffix(p) ==
    LET name == PathName(p)
        stem == SubSeq(name, 1, Len(name) - Len(NameSuffix(name)))
    IN  [p EXCEPT ![Len(p)] = stem]

\* _generate_package_path, had it kept only the file's stem.
GeneratePackagePathFromStem(package_file_relative_path) ==
    PathName(WithoutSuffix(package_file_relative_path))

\* PluginsLoader._generate_package_path
_generate_package_path(package_file_relative_path) ==
    LET package_path == WithoutSuffix(package_file_relative_path)
        \* as_posix() joins with "/", replace("/", ".") makes each a "."
        dotted == JoinWith(package_path, <<".">>)
        stripped == LStripDots(dotted)
    IN  SplitLast(stripped, _INSTALLED_PACKAGES_DIRECTORY \o <<".">>)

(***************************************************************************)
(* SpecPath: _generate_package_path applied to two files.                  *)
(***************************************************************************)
DotDot == <<".", ".">>

\* Directory names the file paths are built from.
GenDirNames ==
    { <<"a">>, <<"b">>, <<"a", ".", "b">>, DotDot, _INSTALLED_PACKAGES_DIRECTORY }

\* File names the file paths are built from.
GenFileNames ==
    { <<"b", ".", "p", "y">>, <<"a", ".", "b", ".", "p", "y">>, <<"b">> }

\* os.path.relpath gives a normalised path: ".." only at its start
Normalised(p) ==
    \A i \in 1..Len(p) : p[i] = DotDot => (i = 1 \/ p[i - 1] = DotDot)

GenDirPaths ==
    {p \in UNION {[1..n -> GenDirNames] : n \in 0..MaxDirDepth} : Normalised(p)}

GenFilePaths == {d \o <<f>> : d \in GenDirPaths, f \in GenFileNames}

InitLoadIdle ==
    /\ load_pc = "idle"
    /\ raise_exception_on_missing_modules = FALSE
    /\ plugins_predicate = [kind |-> "custom", ancestor_class |-> "", accepts |-> {}]
    /\ todo = {}
    /\ plugins = <<>>
    /\ missing_modules = <<>>
    /\ warnings = <<>>
    /\ raised = <<>>
    /\ result = <<>>
    /\ first_seen = <<>>
    /\ encounters = 0
    /\ exported = {}
    /\ failures = <<>>
    /\ fatal_seen = FALSE

InitWalkIdle ==
    /\ walk_pc = "idle"
    /\ package_relative_path = <<>>
    /\ included_files_pattern = <<>>
    /\ included_subdirectories_pattern = <<>>
    /\ walk_iterator = <<>>
    /\ directory_tree = <<>>
    /\ walked = 0
    /\ packages_paths = {}
    /\ sources = {}

InitGenIdle ==
    /\ gen_pc = "idle"
    /\ file_a = <<>>
    /\ file_b = <<>>
    /\ path_a = <<>>
    /\ path_b = <<>>

InitPath ==
    /\ gen_pc = "input"
    /\ file_a \in GenFilePaths
    /\ file_b \in GenFilePaths
    /\ path_a = <<>>
    /\ path_b = <<>>
    /\ InitWalkIdle
    /\ InitLoadIdle

GeneratePackagePaths ==
    /\ gen_pc = "input"
    /\ path_a' = _generate_package_path(file_a)
    /\ path_b' = _generate_package_path(file_b)
    /\ gen_pc' = "done"
    /\ UNCHANGED <<file_a, file_b>>
    /\ UNCHANGED walkVars
    /\ UNCHANGED loadVars

NextPath == GeneratePackagePaths

SpecPath == InitPath /\ [][NextPath]_vars

\* A file that fileAllowed can accept and whose path holds nothing the
\* derivation rewrites: its suffix is ".py", no directory above it is ".."
\* or has a "." in its name or a name ending in the installed-packages
\* directory's, and its stem has no "." in it.
HasDot(name) == \E i \in 1..Len(name) : name[i] = "."

PlainModuleFile(f) ==
    /\ f # <<>>
    /\ NameSuffix(PathName(f)) = PySuffix
    /\ ~HasDot(PathName(WithoutSuffix(f)))
    /\ \A i \in 1..(Len(f) - 1) :
          /\ ~HasDot(f[i])
          /\ ~EndsWith(f[i], _INSTALLED_PACKAGES_DIRECTORY)

\* C5 as stated: two files at different relative paths never get the same
\* package path.
C5_Injective ==
    (gen_pc = "done" /\ file_a # file_b) => path_a # path_b

\* C5 amended: two different ".py" files, neither with a ".." above it, a
\* "." in a directory name or in its stem, or a directory whose name ends in
\* "site-packages", get different package paths.
C5_InjectiveOnPlainFiles ==
    (/\ gen_pc = "done"
     /\ file_a # file_b
     /\ PlainModuleFile(file_a)
     /\ PlainModuleFile(file_b)) => path_a # path_b

\* Two different plain files in the same-named innermost directory, derived.
C5_Witness ==
    /\ gen_pc = "done"
    /\ PlainModuleFile(file_a)
    /\ PlainModuleFile(file_b)
    /\ Len(file_a) = 3
    /\ Len(file_b) = 2
    /\ file_a[2] = file_b[1]
    /\ PathName(file_a) = PathName(file_b)
    /\ path_a # path_b

(***************************************************************************)
(* SpecWalk: PluginsLoader._generate_packages_paths_from_module.           *)
(***************************************************************************)
MatchAll == <<".", "*">>

\* re.match(pattern, text) for the patterns of the model: ".*" matches any
\* text, a pattern without special characters matches the texts that begin
\* with it
ReMatch(pattern, text) ==
    IF pattern = MatchAll THEN TRUE ELSE StartsWith(text, pattern)

\* PluginsLoader._is_acceptable_package_file
_is_acceptable_package_file(package_file) ==
    /\ NameSuffix(package_file) = PySuffix
    /\ ~StartsWith(package_file, _PRIVATE_PREFIX)
    /\ ReMatch(included_files_pattern, package_file)

\* PluginsLoader._is_acceptable_package_subdirectory
_is_acceptable_package_subdirectory(package_subdirectory) ==
    /\ ~StartsWith(package_subdirectory, _PRIVATE_PREFIX)
    /\ ReMatch(included_subdirectories_pattern, package_subdirectory)

\* The files of package_files that _generate_packages_paths_from_files
\* keeps, each as Path(package_directory) / f
AcceptedFiles(package_directory, package_files) ==
    {package_directory \o <<f>> :
        f \in {g \in package_files : _is_acceptable_package_file(g)}}

\* PluginsLoader._generate_packages_paths_from_files
_generate_packages_paths_from_files(package_directory, package_files) ==
    {_generate_package_path(package_file_relative_path) :
        package_file_relative_path \in
            AcceptedFiles(package_directory, package_files)}

\* PluginsLoader._generate_subdirectories_trees: the chain of the os.walk
\* generators of the acceptable subdirectories, each given by its top (a
\* generator lists nothing until it is iterated)
RECURSIVE _generate_subdirectories_trees(_, _)
_generate_subdirectories_trees(package_directory, package_subdirectories) ==
    IF package_subdirectories = <<>> THEN <<>>
    ELSE LET directory == Head(package_subdirectories)
             rest == _generate_subdirectories_trees(
                         package_directory, Tail(package_subdirectories))
         IN  IF _is_acceptable_package_subdirectory(directory)
             THEN <<package_directory \o <<directory>>>> \o rest
             ELSE rest

\* Path(package_directory).name.endswith(excluded_prefixes)
ExcludedDirectory(package_directory) ==
    \/ EndsWith(PathName(package_directory), _PRIVATE_PREFIX)
    \/ EndsWith(PathName(package_directory), <<".">>)

\* The directories os.walk goes on to after one whose subdirectories are
\* package_subdirectories: all of them, in the order listed
RECURSIVE WalkChildren(_, _)
WalkChildren(package_directory, package_subdirectories) ==
    IF package_subdirectories = <<>> THEN <<>>
    ELSE <<package_directory \o <<Head(package_subdirectories)>>>>
         \o WalkChildren(package_directory, Tail(package_subdirectories))

\* Names of the package directories of the model.
PkgName == <<"p", "k", "g">>

PkgPrivateName == <<"p", "k", "g", "_", "_">>

\* The package's directory relative to the cwd: below it, a directory whose
\* name ends in "__", the cwd's parent, the cwd itself.
WalkRoots == { <<PkgName>>, <<PkgPrivateName>>, <<DotDot>>, <<>> }

SubName == <<"s", "u", "b">>

HiddenName == <<"_", "_", "h", "i", "d">>

PycacheName == <<"_", "_", "p", "y", "c", "a", "c", "h", "e", "_", "_">>

OtherName == <<"n", "o", "p", "e">>

\* Names of the subdirectories a listing may hold.
WalkDirNames == { SubName, HiddenName, PycacheName, OtherName }

ModuleFileName == <<"m", ".", "p", "y">>

InitFileName == <<"_", "_", "i", "n", "i", "t", "_", "_", ".", "p", "y">>

\* Names of the files a listing may hold.
WalkFileNames == { ModuleFileName, InitFileName }

\* The patterns a loader of the model is configured with.
FilePatterns == { MatchAll, <<"m">> }

SubdirectoryPatterns == { MatchAll, <<"s">> }

\* What a directory may list as its subdirectories: distinct names, in the
\* file system's order.
DirListings ==
    {l \in UNION {[1..n -> WalkDirNames] : n \in 0..(MaxWalked - 1)} :
        \A i, j \in 1..Len(l) : i # j => l[i] # l[j]}

InitWalk ==
    /\ walk_pc = "walking"
    /\ package_relative_path \in WalkRoots
    /\ included_files_pattern \in FilePatterns
    /\ included_subdirectories_pattern \in SubdirectoryPatterns
    /\ walk_iterator = <<package_relative_path>>
    /\ directory_tree = <<>>
    /\ walked = 1
    /\ packages_paths = {}
    /\ sources = {}
    /\ InitGenIdle
    /\ InitLoadIdle

\* One iteration of the for statement of
\* _generate_packages_paths_from_module: os.walk lists its next directory
\* and the body runs on it.
WalkDirectory ==
    /\ walk_pc = "walking"
    /\ walk_iterator # <<>>
    /\ LET package_directory == Head(walk_iterator)
           depth == Len(package_directory) - Len(package_relative_path)
       IN  \E package_subdirectories \in DirListings,
              package_files \in SUBSET WalkFileNames :
             /\ walked + Len(package_subdirectories) <= MaxWalked
             /\ depth >= MaxTreeDepth => package_subdirectories = <<>>
             /\ walked' = walked + Len(package_subdirectories)
             /\ walk_iterator' =
                    WalkChildren(package_directory, package_subdirectories)
                    \o Tail(walk_iterator)
             /\ IF ExcludedDirectory(package_directory)
                THEN UNCHANGED <<packages_paths, sources, directory_tree>>
                ELSE /\ packages_paths' = packages_paths \cup
                            _generate_packages_paths_from_files(
                                package_directory, package_files)
                     /\ sources' = sources \cup
                            AcceptedFiles(package_directory, package_files)
                     /\ directory_tree' = directory_tree \o
                            _generate_subdirectories_trees(
                                package_directory, package_subdirectories)
    /\ UNCHANGED <<walk_pc, package_relative_path, included_files_pattern,
                   included_subdirectories_pattern>>
    /\ UNCHANGED genVars
    /\ UNCHANGED loadVars

\* The for statement is exhausted: return packages_paths.
WalkReturn ==
    /\ walk_pc = "walking"
    /\ walk_iterator = <<>>
    /\ walk_pc' = "returned"
    /\ UNCHANGED <<package_relative_path, included_files_pattern,
                   included_subdirectories_pattern, walk_iterator,
                   directory_tree, walked, packages_paths, sources>>
    /\ UNCHANGED genVars
    /\ UNCHANGED loadVars

NextWalk == WalkDirectory \/ WalkReturn

SpecWalk == InitWalk /\ [][NextWalk]_vars

\* The directories above file f that lie below the package's directory.
DirectoriesBelowRoot(f) ==
    {f[i] : i \in (Len(package_relative_path) + 1)..(Len(f) - 1)}

\* C1: no package path is produced for a file in or beneath a directory,
\* below the package's directory, whose name begins with "__" or fails the
\* pattern of the included subdirectories.
C1_ExcludedSubtreesNeverTraversed ==
    \A f \in sources :
        \A directory \in DirectoriesBelowRoot(f) :
            _is_acceptable_package_subdirectory(directory)

\* C10: a package directory whose own name ends in "__" or in "." yields
\* no package path at all.
C10_ExcludedRootYieldsNothing ==
    (walk_pc = "returned" /\ ExcludedDirectory(package_relative_path))
        => packages_paths = {}

(***************************************************************************)
(* Spec: PluginsLoader._load_plugins and _handle_missing_modules.          *)
(***************************************************************************)
\* The objects an imported module may bind to its names: the classes A,
\* B(A) and C(B), and two values that are distinct objects and compare equal.
Classes == {"A", "B", "C"}

Values == {"v1", "v2"}

Members == Classes \cup Values

\* The direct base classes of a class (class B(A), class C(B)).
Bases(class) ==
    CASE class = "B" -> {"A"}
      [] class = "C" -> {"B"}
      [] OTHER -> {}

\* What a value compares by (v1 == v2 is true, v1 is v2 is false).
ValueOf(member) == IF member \in Values THEN 1 ELSE 0

\* member == other: a class is equal to itself only (type's ==), values
\* are equal when what they hold is
PyEq(member, other) ==
    IF member \in Classes \/ other \in Classes
    THEN member = other
    ELSE ValueOf(member) = ValueOf(other)

\* inspect.isclass(member)
IsClass(member) == member \in Classes

\* issubclass(member, ancestor_class), for classes: the class itself or a
\* class with a base that is a subclass
RECURSIVE IsSubclass(_, _)
IsSubclass(member, ancestor_class) ==
    \/ member = ancestor_class
    \/ \E base \in Bases(member) : IsSubclass(base, ancestor_class)

\* _is_member_subclass_of_ancestor without its inequality test.
IsMemberSubclassOrAncestor(member, ancestor_class) ==
    /\ IsClass(member)
    /\ IsSubclass(member, ancestor_class)

\* _is_member_subclass_of_ancestor
_is_member_subclass_of_ancestor(member, ancestor_class) ==
    /\ IsClass(member)
    /\ ~PyEq(member, ancestor_class)
    /\ IsSubclass(member, ancestor_class)

\* The predicates _load is called with: load_subclasses' lambda over an
\* ancestor class, or the loader's plugins_predicate, given by the members
\* it accepts (the default, lambda member: False, accepts none).
Predicates ==
    {[kind |-> "subclass", ancestor_class |-> c, accepts |-> {}] :
        c \in {"A", "B"}}
    \cup
    {[kind |-> "custom", ancestor_class |-> "", accepts |-> a] :
        a \in {{}, Values, Members}}

\* plugins_predicate(member)
Satisfies(predicate, member) ==
    IF predicate.kind = "subclass"
    THEN _is_member_subclass_of_ancestor(member, predicate.ancestor_class)
    ELSE member \in predicate.accepts

\* inspect.getmembers(plugin_module, plugins_predicate): the values of the
\* module's names, in the order of the names, that satisfy the predicate.
\* A module is given by the values of its names in that order.
GetMembers(plugin_module, predicate) ==
    SelectSeq(plugin_module, LAMBDA member : Satisfies(predicate, member))

\* plugin in plugins, had it looked at the last entry only.
EqualsLastOf(list, plugin) ==
    list # <<>> /\ (list[Len(list)] = plugin \/ PyEq(list[Len(list)], plugin))

\* plugin in plugins: some entry is the object or is equal to it
ListContains(list, plugin) ==
    \E i \in 1..Len(list) : list[i] = plugin \/ PyEq(list[i], plugin)

\* plugins.append(plugin), had it put the plugin first.
InsertFirst(list, plugin) == <<plugin>> \o list

\* plugins.append(plugin)
ListAppend(list, plugin) == Append(list, plugin)

\* The for statement over members: each plugin not in plugins is appended
RECURSIVE CollectPlugins(_, _)
CollectPlugins(list, members) ==
    IF members = <<>> THEN list
    ELSE LET plugin == Head(members)
         IN  CollectPlugins(
                 IF ~ListContains(list, plugin)
                 THEN ListAppend(list, plugin) ELSE list,
                 Tail(members))

\* History: the members met so far, each once, by identity.
RECURSIVE NoteFirstSeen(_, _)
NoteFirstSeen(seen, members) ==
    IF members = <<>> THEN seen
    ELSE NoteFirstSeen(
             IF \E i \in 1..Len(seen) : seen[i] = Head(members)
             THEN seen ELSE Append(seen, Head(members)),
             Tail(members))

Range(f) == {f[i] : i \in DOMAIN f}

\* The module names a ModuleNotFoundError may carry; "" stands for an
\* error without a name (e.name is None or empty).
MissingNames == {"foo", "bar"}

NoName == ""

\* What a module of the model binds: up to MaxMembers names.
Namespaces == UNION {[1..n -> Members] : n \in 0..MaxMembers}

\* What importlib.import_module(plugin_file_name) may do: return a module,
\* raise ModuleNotFoundError with or without a name, raise something else.
ImportOutcomes ==
    {[kind |-> "module", name |-> NoName, namespace |-> ns] :
        ns \in Namespaces}
    \cup
    {[kind |-> "ModuleNotFoundError", name |-> n, namespace |-> <<>>] :
        n \in MissingNames \cup {NoName}}
    \cup
    {[kind |-> "Exception", name |-> NoName, namespace |-> <<>>]}

\* The package paths found by discovery, as handed to _load_plugins.
PackagePaths == 1..NumPackagePaths

Init ==
    /\ load_pc = "sweep"
    /\ raise_exception_on_missing_modules \in BOOLEAN
    /\ plugins_predicate \in Predicates
    /\ todo = PackagePaths
    /\ plugins = <<>>
    /\ missing_modules = <<>>
    /\ warnings = <<>>
    /\ raised = <<>>
    /\ result = <<>>
    /\ first_seen = <<>>
    /\ encounters = 0
    /\ exported = {}
    /\ failures = <<>>
    /\ fatal_seen = FALSE
    /\ InitGenIdle
    /\ InitWalkIdle

\* except ModuleNotFoundError as e: does the handler catch this failure?
Catches(outcome) == outcome.kind = "ModuleNotFoundError"

\* The handler without its test of e.name: nothing is raised again.
ReraisesNothing(outcome) == FALSE

\* if not e.name: raise e
Reraises(outcome) == outcome.name = NoName

\* One iteration of the for statement of _load_plugins on plugin_file_name,
\* the import ending as outcome.
LoadPlugin(plugin_file_name, outcome) ==
    /\ load_pc = "sweep"
    /\ plugin_file_name \in todo
    /\ todo' = todo \ {plugin_file_name}
    /\ fatal_seen' = (fatal_seen \/ outcome.kind = "Exception"
                        \/ (outcome.kind = "ModuleNotFoundError"
                              /\ outcome.name = NoName))
    /\ IF outcome.kind = "module"
       THEN LET members == GetMembers(outcome.namespace, plugins_predicate)
            IN  /\ plugins' = CollectPlugins(plugins, members)
                /\ first_seen' = NoteFirstSeen(first_seen, members)
                /\ encounters' = encounters + Len(members)
                /\ exported' = exported \cup Range(outcome.namespace)
                /\ UNCHANGED <<load_pc, missing_modules, failures>>
       ELSE IF Catches(outcome) /\ ~Reraises(outcome)
       THEN /\ missing_modules' =
                    IF outcome.name \notin Range(missing_modules)
                    THEN Append(missing_modules, outcome.name)
                    ELSE missing_modules
            /\ failures' = Append(failures, outcome.name)
            /\ UNCHANGED <<load_pc, plugins, first_seen, encounters, exported>>
       ELSE /\ load_pc' = "raised_fatal"
            /\ UNCHANGED <<plugins, missing_modules, first_seen, encounters,
                           exported, failures>>
    /\ UNCHANGED <<raise_exception_on_missing_modules, plugins_predicate,
                   warnings, raised, result>>
    /\ UNCHANGED genVars
    /\ UNCHANGED walkVars

\* _handle_missing_modules, had it logged whatever the flag says.
HandleMissingModulesByLogging ==
    /\ warnings' = Append(warnings, missing_modules)
    /\ load_pc' = "returned"
    /\ result' = <<plugins>>
    /\ UNCHANGED raised

\* PluginsLoader._handle_missing_modules(missing_modules), and the return
\* of _load_plugins if it raises nothing
_handle_missing_modules ==
    IF raise_exception_on_missing_modules
    THEN /\ load_pc' = "raised_missing"
         /\ raised' = missing_modules
         /\ UNCHANGED <<warnings, result>>
    ELSE /\ warnings' = Append(warnings, missing_modules)
         /\ load_pc' = "returned"
         /\ result' = <<plugins>>
         /\ UNCHANGED raised

\* The for statement is exhausted: handle the missing modules if there are
\* any, and return plugins.
FinishLoad ==
    /\ load_pc = "sweep"
    /\ todo = {}
    /\ IF missing_modules # <<>>
       THEN _handle_missing_modules
       ELSE /\ load_pc' = "returned"
            /\ result' = <<plugins>>
            /\ UNCHANGED <<warnings, raised>>
    /\ UNCHANGED <<raise_exception_on_missing_modules, plugins_predicate,
                   todo, plugins, missing_modules, first_seen, encounters,
                   exported, failures, fatal_seen>>
    /\ UNCHANGED genVars
    /\ UNCHANGED walkVars

Next ==
    \/ \E plugin_file_name \in PackagePaths, outcome \in ImportOutcomes :
          LoadPlugin(plugin_file_name, outcome)
    \/ FinishLoad

Spec == Init /\ [][Next]_vars

Finished == load_pc \in {"returned", "raised_missing", "raised_fatal"}

NoDuplicates(list) ==
    \A i, j \in 1..Len(list) : i # j => list[i] # list[j]

IsPrefix(s, t) == Len(s) <= Len(t) /\ SubSeq(t, 1, Len(s)) = s

\* The place of a member in first_seen, 0 if it is not there.
FirstSeenAt(member) ==
    IF member \in Range(first_seen)
    THEN CHOOSE i \in 1..Len(first_seen) : first_seen[i] = member
    ELSE 0

\* The entries of list are in the order of their first encounters.
InFirstSeenOrder(list) ==
    /\ \A i \in 1..Len(list) : FirstSeenAt(list[i]) > 0
    /\ \A i, j \in 1..Len(list) :
          i < j => FirstSeenAt(list[i]) < FirstSeenAt(list[j])

\* C2 as stated: with raise_exception_on_missing_modules set and an import
\* failed for a named missing module, the operation ends with the aggregate
\* ModuleNotFoundError naming every missing module, raised after every
\* package path was attempted, with nothing returned and nothing logged.
C2_MissingModulesRaiseAggregate ==
    (/\ raise_exception_on_missing_modules
     /\ failures # <<>>
     /\ Finished)
    => /\ load_pc = "raised_missing"
       /\ Range(raised) = Range(failures)
       /\ todo = {}
       /\ result = <<>>
       /\ warnings = <<>>

\* C2 amended: the same, provided no import of the sweep fails with an
\* unnamed ModuleNotFoundError or with another error (that failure is the
\* one the caller gets).
C2_MissingModulesRaiseAggregateUnlessFatal ==
    (/\ raise_exception_on_missing_modules
     /\ failures # <<>>
     /\ ~fatal_seen
     /\ Finished)
    => /\ load_pc = "raised_missing"
       /\ Range(raised) = Range(failures)
       /\ todo = {}
       /\ result = <<>>
       /\ warnings = <<>>

\* The aggregate error was raised although another module had given plugins.
C2_Witness ==
    /\ load_pc = "raised_missing"
    /\ raise_exception_on_missing_modules
    /\ failures = <<"foo">>
    /\ raised = <<"foo">>
    /\ plugins # <<>>
    /\ result = <<>>

\* C3: without raise_exception_on_missing_modules, when exactly one import
\* fails, for the missing module "foo", and the others succeed, the
\* operation returns a list with every matching member of the imported
\* modules and logs exactly one warning, which mentions "foo"; when no
\* import fails nothing is logged.
C3_OneMissingModuleIsWarnedAbout ==
    /\ (/\ ~raise_exception_on_missing_modules
        /\ Finished
        /\ ~fatal_seen
        /\ failures = <<"foo">>)
       => /\ load_pc = "returned"
          /\ todo = {}
          /\ Len(result) = 1
          /\ Range(first_seen) \subseteq Range(result[1])
          /\ Len(warnings) = 1
          /\ "foo" \in Range(warnings[1])
    /\ (Finished /\ ~fatal_seen /\ failures = <<>>) => warnings = <<>>

\* C4: the plugins list, during the sweep and as returned, never holds the
\* same object twice.
C4_NoObjectTwice ==
    /\ NoDuplicates(plugins)
    /\ result # <<>> => NoDuplicates(result[1])

\* A list of two plugins was returned after a matching member was met again.
C4_Witness ==
    /\ load_pc = "returned"
    /\ encounters > Len(first_seen)
    /\ Len(result[1]) >= 2

\* The members of the imported modules that are classes, are not the
\* ancestor and are subclasses of it.
StrictSubclassesExported(ancestor_class) ==
    {member \in exported :
        /\ IsClass(member)
        /\ member # ancestor_class
        /\ IsSubclass(member, ancestor_class)}

\* C6: under load_subclasses the plugins are exactly the members that are
\* classes, are not the ancestor itself and are subclasses of it: with
\* class B(A), class C(B) and A exported, B and C and not A.
C6_StrictSubclassesOnly ==
    plugins_predicate.kind = "subclass"
    => /\ Range(plugins) =
              StrictSubclassesExported(plugins_predicate.ancestor_class)
       /\ result # <<>> =>
              Range(result[1]) =
                  StrictSubclassesExported(plugins_predicate.ancestor_class)

\* A, B(A) and C(B) were exported and load_subclasses(A) returned B and C.
C6_Witness ==
    /\ load_pc = "returned"
    /\ plugins_predicate.kind = "subclass"
    /\ plugins_predicate.ancestor_class = "A"
    /\ exported = {"A", "B", "C"}
    /\ Range(result[1]) = {"B", "C"}

\* C7: the plugins are in the order of their first encounters, and the
\* list only ever grows at its end.
C7_FirstEncounterOrder ==
    /\ [](/\ InFirstSeenOrder(plugins)
          /\ result # <<>> => InFirstSeenOrder(result[1]))
    /\ [][IsPrefix(plugins, plugins')]_vars

\* B, then C, then one of them again: the list returned is B, C.
C7_Witness ==
    /\ load_pc = "returned"
    /\ first_seen = <<"B", "C">>
    /\ encounters = 3
    /\ result = << <<"B", "C">> >>

\* C8: an import that fails otherwise than with a named missing module ends
\* the operation there: no warning, no aggregate error, no result, and
\* nothing changes afterwards; a named missing module leaves the sweep
\* going.
C8_OtherFailuresAreFatal ==
    /\ [](fatal_seen => /\ load_pc = "raised_fatal"
                        /\ warnings = <<>>
                        /\ raised = <<>>
                        /\ result = <<>>)
    /\ [][fatal_seen => UNCHANGED loadVars]_vars
    /\ [][Len(failures') > Len(failures) => load_pc' = "sweep"]_vars

\* The failure came with a package path still to load.
C8_Witness ==
    /\ fatal_seen
    /\ load_pc = "raised_fatal"
    /\ todo # {}

\* C9: a matching member is left out of the plugins only if that very
\* object is already among them, so every member met is among them.
C9_SuppressedOnlyByIdentity ==
    load_pc \in {"sweep", "returned"}
    => Range(first_seen) \subseteq Range(plugins)

====
